---- MODULE Spec2Model ----
(***************************************************************************)
(* Model of src/sales_2.py: SalesPerformanceDashboard and main.            *)
(*                                                                         *)
(* Encoding.  A nullable SQL / pandas value is a sequence of length at    *)
(* most one: <<>> is NULL / NaN / None, <<v>> is the value v.  Money is    *)
(* kept in whole units so that products and sums are exact.  The columns   *)
(* sale_date and month play no part in any aggregate and are left out.     *)
(***************************************************************************)
EXTENDS Integers, Sequences, FiniteSets, TLC

VARIABLES
  sales,                 \* rows of the sales table in the data store
  data,                  \* self.data: None, or the flat table
  kpis,                  \* the tables the latest call computed: the local
  regional_performance,  \*   kpis / regional_performance / customer_analysis
  customer_analysis,     \*   of the method that ran; None for the others
  files,                 \* CSV files written so far, by file name
  error,                 \* exception raised by the latest call, "" if none
  invoked,               \* methods the latest call has run, in order
  trace,                 \* methods run so far by main, in order
  pc                     \* position of main; "api" when the methods are
                         \*   called directly

vars == <<sales, data, kpis, regional_performance, customer_analysis,
          files, error, invoked, trace, pc>>

(* ---------------------------------------------------------------------- *)
(* Bounds                                                                  *)
(* ---------------------------------------------------------------------- *)
MaxSales == 2

(* ---------------------------------------------------------------------- *)
(* Nullable values                                                         *)
(* ---------------------------------------------------------------------- *)
None == <<>>
Some(x) == <<x>>
IsNull(x) == x = None
NotNull(x) == x # None

\* NaN-propagating product of two nullable numbers (Series * Series).
Mul(a, b) == IF IsNull(a) \/ IsNull(b) THEN None ELSE Some(a[1] * b[1])

\* Ascending order of the string keys that occur in the model, as sorted()
\* orders them.
KeyOrder == <<"Corporate", "East", "Retail", "West">>

(* ---------------------------------------------------------------------- *)
(* The data store: four dimension tables keyed by their primary key and    *)
(* the rows a sales table may hold.                                        *)
(* ---------------------------------------------------------------------- *)
regions ==
  (1 :> [region_name |-> Some("East"), country |-> "US"]) @@
  (2 :> [region_name |-> Some("West"), country |-> "CA"]) @@
  (3 :> [region_name |-> None,         country |-> "MX"])

products ==
  (1 :> [product_name |-> "Widget", category |-> "Tools"])

customers ==
  (1 :> [customer_segment |-> Some("Retail")]) @@
  (2 :> [customer_segment |-> Some("Corporate")]) @@
  (3 :> [customer_segment |-> None])

employees ==
  (1 :> [sales_rep_name |-> "Alice"])

\* (quantity, unit_price) of a sale: a NULL quantity, and sale values 10, 10
\* and 20.
QuantityPrices ==
  {<<None, Some(10)>>, <<Some(1), Some(10)>>, <<Some(2), Some(5)>>, <<Some(2), Some(10)>>}

\* The stored total_revenue, which agrees with none of the sale values.
StoredRevenues == {Some(7)}

\* (region_id, customer_id) of the sales whose four foreign keys all match.
MatchedKeys == {<<1, 1>>, <<2, 2>>, <<3, 1>>, <<1, 3>>}

MatchedRows ==
  { [product_id |-> 1, region_id |-> k[1], customer_id |-> k[2],
     sales_rep_id |-> 1, quantity |-> qp[1], unit_price |-> qp[2],
     total_revenue |-> t] :
       k \in MatchedKeys, qp \in QuantityPrices, t \in StoredRevenues }

\* Sales with exactly one foreign key that matches no row (id 9 is absent
\* from every dimension table).
DanglingRows ==
  { [product_id |-> f[1], region_id |-> f[2], customer_id |-> f[3],
     sales_rep_id |-> f[4], quantity |-> Some(2), unit_price |-> Some(10),
     total_revenue |-> Some(7)] :
       f \in {<<9, 1, 1, 1>>, <<1, 9, 1, 1>>, <<1, 1, 9, 1>>, <<1, 1, 1, 9>>} }

SaleRows == MatchedRows \cup DanglingRows

RECURSIVE SeqsUpTo(_, _)
SeqsUpTo(S, n) ==
  IF n = 0 THEN {<<>>}
  ELSE LET shorter == SeqsUpTo(S, n - 1)
       IN  shorter \cup { Append(s, x) : s \in {t \in shorter : Len(t) = n - 1}, x \in S }

(* ---------------------------------------------------------------------- *)
(* extract_data                                                            *)
(* ---------------------------------------------------------------------- *)
\* The ON conditions of the four JOINs.
JoinMatches(s) ==
  /\ s.product_id \in DOMAIN products
  /\ s.region_id \in DOMAIN regions
  /\ s.customer_id \in DOMAIN customers
  /\ s.sales_rep_id \in DOMAIN employees

\* FlatRow with total_sale_value copied from the stored total_revenue column.
FlatRowStoredRevenue(i, s) ==
  [ sale_id          |-> Some(i),
    product_name     |-> products[s.product_id].product_name,
    category         |-> products[s.product_id].category,
    region_name      |-> regions[s.region_id].region_name,
    country          |-> regions[s.region_id].country,
    quantity         |-> s.quantity,
    unit_price       |-> s.unit_price,
    total_revenue    |-> s.total_revenue,
    customer_segment |-> customers[s.customer_id].customer_segment,
    employee_id      |-> s.sales_rep_id,
    sales_rep_name   |-> employees[s.sales_rep_id].sales_rep_name,
    total_sale_value |-> s.total_revenue ]

\* One row of the SELECT list for sale number i, plus the derived column
\* total_sale_value = quantity * unit_price.
FlatRow(i, s) ==
  [ sale_id          |-> Some(i),
    product_name     |-> products[s.product_id].product_name,
    category         |-> products[s.product_id].category,
    region_name      |-> regions[s.region_id].region_name,
    country          |-> regions[s.region_id].country,
    quantity         |-> s.quantity,
    unit_price       |-> s.unit_price,
    total_revenue    |-> s.total_revenue,
    customer_segment |-> customers[s.customer_id].customer_segment,
    employee_id      |-> s.sales_rep_id,
    sales_rep_name   |-> employees[s.sales_rep_id].sales_rep_name,
    total_sale_value |-> Mul(s.quantity, s.unit_price) ]

\* A join that stops at the first sale without a match.
RECURSIVE JoinFromUntilMismatch(_, _)
JoinFromUntilMismatch(tbl, i) ==
  IF i > Len(tbl) THEN <<>>
  ELSE IF JoinMatches(tbl[i])
       THEN <<FlatRow(i, tbl[i])>> \o JoinFromUntilMismatch(tbl, i + 1)
       ELSE <<>>

\* The inner join, in the order of the sales table; sale_id is the row's
\* position (INTEGER PRIMARY KEY).
RECURSIVE JoinFrom(_, _)
JoinFrom(tbl, i) ==
  IF i > Len(tbl) THEN <<>>
  ELSE IF JoinMatches(tbl[i])
       THEN <<FlatRow(i, tbl[i])>> \o JoinFrom(tbl, i + 1)
       ELSE JoinFrom(tbl, i + 1)

FlatTable(tbl) == JoinFrom(tbl, 1)

(* ---------------------------------------------------------------------- *)
(* pandas reductions over a column (a sequence of nullable values)         *)
(* ---------------------------------------------------------------------- *)
RECURSIVE Column(_, _)
Column(tbl, c) ==
  IF tbl = <<>> THEN <<>> ELSE <<Head(tbl)[c]>> \o Column(Tail(tbl), c)

\* Series.sum(): NaN is skipped, the empty sum is 0.
RECURSIVE SeriesSum(_)
SeriesSum(col) ==
  IF col = <<>> THEN 0
  ELSE (IF IsNull(Head(col)) THEN 0 ELSE Head(col)[1]) + SeriesSum(Tail(col))

\* Series.count(): the number of non-null entries.
RECURSIVE SeriesCount(_)
SeriesCount(col) ==
  IF col = <<>> THEN 0
  ELSE (IF IsNull(Head(col)) THEN 0 ELSE 1) + SeriesCount(Tail(col))

\* Series.mean(): NaN (None) when there is no non-null entry, else the
\* fraction <<sum, count>> of the non-null entries.
SeriesMean(col) ==
  IF SeriesCount(col) = 0 THEN None
  ELSE Some(<<SeriesSum(col), SeriesCount(col)>>)

\* Series.nunique(): distinct non-null values.
SeriesNUnique(col) ==
  Cardinality({ col[i][1] : i \in {j \in 1..Len(col) : NotNull(col[j])} })

(* ---------------------------------------------------------------------- *)
(* DataFrame.groupby(key) with its defaults sort=True, dropna=True         *)
(* ---------------------------------------------------------------------- *)
KeyPresent(tbl, key, k) == \E i \in 1..Len(tbl) : tbl[i][key] = Some(k)

RECURSIVE KeysOfRows(_, _)
KeysOfRows(tbl, key) ==
  IF tbl = <<>> THEN <<>>
  ELSE (IF IsNull(Head(tbl)[key]) THEN <<>> ELSE Head(tbl)[key])
         \o KeysOfRows(Tail(tbl), key)

\* One group per row: the non-null keys in table order, repeats kept.
GroupKeysPerRow(tbl, key) == KeysOfRows(tbl, key)

\* The group keys: the distinct non-null key values, ascending.
GroupKeys(tbl, key) ==
  SelectSeq(KeyOrder, LAMBDA k : KeyPresent(tbl, key, k))

\* The rows of one group, in table order.
GroupRows(tbl, key, k) ==
  SelectSeq(tbl, LAMBDA r : r[key] = Some(k))

\* groupby(key)[c].sum(): a Series of <<key, sum>> in group-key order.
GroupSum(tbl, key, c) ==
  LET ks == GroupKeys(tbl, key)
  IN  [i \in 1..Len(ks) |-> <<ks[i], SeriesSum(Column(GroupRows(tbl, key, ks[i]), c))>>]

\* idxmax returning the label of the last entry that attains the maximum.
IdxMaxLast(series) ==
  LET i == CHOOSE n \in 1..Len(series) :
             /\ \A j \in 1..Len(series) : series[j][2] <= series[n][2]
             /\ \A j \in (n + 1)..Len(series) : series[j][2] < series[n][2]
  IN  series[i][1]

\* Series.idxmax(): the label of the first entry that attains the maximum.
\* Only applied to a non-empty Series; on an empty one pandas raises.
IdxMax(series) ==
  LET i == CHOOSE n \in 1..Len(series) :
             /\ \A j \in 1..Len(series) : series[j][2] <= series[n][2]
             /\ \A j \in 1..(n - 1) : series[j][2] < series[n][2]
  IN  series[i][1]

(* ---------------------------------------------------------------------- *)
(* The tables the methods compute                                          *)
(* ---------------------------------------------------------------------- *)
\* The kpis dict of calculate_kpis, for a table on which idxmax succeeds.
KpiSet(tbl) ==
  [ total_revenue             |-> SeriesSum(Column(tbl, "total_sale_value")),
    total_sales_volume        |-> SeriesSum(Column(tbl, "quantity")),
    average_transaction_value |-> SeriesMean(Column(tbl, "total_sale_value")),
    unique_customers          |-> SeriesNUnique(Column(tbl, "customer_segment")),
    top_performing_region     |->
        IdxMax(GroupSum(tbl, "region_name", "total_sale_value")) ]

\* groupby('region_name').agg({'total_sale_value': ['sum', 'mean'],
\* 'quantity': ['sum', 'count']}).reset_index() with the renamed columns.
RegionalTable(tbl) ==
  LET ks == GroupKeys(tbl, "region_name")
  IN  [i \in 1..Len(ks) |->
        LET g == GroupRows(tbl, "region_name", ks[i])
        IN  [ Region             |-> ks[i],
              Total_Revenue      |-> SeriesSum(Column(g, "total_sale_value")),
              Average_Sale       |-> SeriesMean(Column(g, "total_sale_value")),
              Total_Units        |-> SeriesSum(Column(g, "quantity")),
              Total_Transactions |-> SeriesCount(Column(g, "quantity")) ]]

\* groupby('customer_segment').agg({'total_sale_value': ['sum', 'mean'],
\* 'sale_id': 'count'}).reset_index() with the renamed columns.
CustomerTable(tbl) ==
  LET ks == GroupKeys(tbl, "customer_segment")
  IN  [i \in 1..Len(ks) |->
        LET g == GroupRows(tbl, "customer_segment", ks[i])
        IN  [ Customer_Segment   |-> ks[i],
              Total_Revenue      |-> SeriesSum(Column(g, "total_sale_value")),
              Average_Sale       |-> SeriesMean(Column(g, "total_sale_value")),
              Total_Transactions |-> SeriesCount(Column(g, "sale_id")) ]]

CsvNames == {"regional_performance_insights.csv", "customer_analysis_insights.csv"}

(* ---------------------------------------------------------------------- *)
(* The methods of SalesPerformanceDashboard                                *)
(* ---------------------------------------------------------------------- *)
\* read_sql_query either raises (store unreachable, schema mismatch) or
\* yields the join; self.data is assigned only in the second case.
extract_data ==
  \E ok \in BOOLEAN :
    /\ invoked' = <<"extract_data">>
    /\ IF ok
       THEN data' = Some(FlatTable(sales)) /\ error' = ""
       ELSE data' = data /\ error' = "DatabaseError"
    /\ kpis' = None
    /\ regional_performance' = None
    /\ customer_analysis' = None
    /\ UNCHANGED <<sales, files>>

\* Subscripting self.data = None raises TypeError; idxmax of an empty
\* Series (no row, or no row with a region name) raises ValueError while the
\* dict is being built, so that nothing is returned.
calculate_kpis_default_on_empty ==
  /\ invoked' = <<"calculate_kpis">>
  /\ IF IsNull(data)
     THEN kpis' = None /\ error' = "TypeError"
     ELSE IF GroupSum(data[1], "region_name", "total_sale_value") = <<>>
          THEN /\ kpis' = Some([ total_revenue |-> 0, total_sales_volume |-> 0,
                                 average_transaction_value |-> None,
                                 unique_customers |-> 0,
                                 top_performing_region |-> "" ])
               /\ error' = ""
          ELSE kpis' = Some(KpiSet(data[1])) /\ error' = ""
  /\ regional_performance' = None
  /\ customer_analysis' = None
  /\ UNCHANGED <<sales, data, files>>

calculate_kpis ==
  /\ invoked' = <<"calculate_kpis">>
  /\ IF IsNull(data)
     THEN kpis' = None /\ error' = "TypeError"
     ELSE IF GroupSum(data[1], "region_name", "total_sale_value") = <<>>
          THEN kpis' = None /\ error' = "ValueError"
          ELSE kpis' = Some(KpiSet(data[1])) /\ error' = ""
  /\ regional_performance' = None
  /\ customer_analysis' = None
  /\ UNCHANGED <<sales, data, files>>

\* An analysis that drops the rows without a sale value from self.data
\* in place before grouping.
regional_performance_analysis_dropna_inplace ==
  /\ invoked' = <<"regional_performance_analysis">>
  /\ IF IsNull(data)
     THEN /\ regional_performance' = None
          /\ error' = "TypeError"
          /\ data' = data
     ELSE /\ data' = Some(SelectSeq(data[1], LAMBDA r : NotNull(r.total_sale_value)))
          /\ regional_performance' = Some(RegionalTable(data'[1]))
          /\ error' = ""
  /\ kpis' = None
  /\ customer_analysis' = None
  /\ UNCHANGED <<sales, files>>

regional_performance_analysis ==
  /\ invoked' = <<"regional_performance_analysis">>
  /\ IF IsNull(data)
     THEN regional_performance' = None /\ error' = "TypeError"
     ELSE regional_performance' = Some(RegionalTable(data[1])) /\ error' = ""
  /\ kpis' = None
  /\ customer_analysis' = None
  /\ UNCHANGED <<sales, data, files>>

customer_acquisition_analysis ==
  /\ invoked' = <<"customer_acquisition_analysis">>
  /\ IF IsNull(data)
     THEN customer_analysis' = None /\ error' = "TypeError"
     ELSE customer_analysis' = Some(CustomerTable(data[1])) /\ error' = ""
  /\ kpis' = None
  /\ regional_performance' = None
  /\ UNCHANGED <<sales, data, files>>

\* Both analyses are computed first (the insights dict), then the two files
\* are written in dict order; to_csv may raise on either file, which ends
\* the loop with the earlier file already on disk.
export_insights ==
  /\ kpis' = None
  /\ UNCHANGED <<sales, data>>
  /\ IF IsNull(data)
     THEN /\ invoked' = <<"export_insights", "regional_performance_analysis">>
          /\ error' = "TypeError"
          /\ regional_performance' = None
          /\ customer_analysis' = None
          /\ files' = files
     ELSE \E failed \in {"", "regional_performance", "customer_analysis"} :
          /\ invoked' = <<"export_insights", "regional_performance_analysis",
                          "customer_acquisition_analysis">>
          /\ regional_performance' = Some(RegionalTable(data[1]))
          /\ customer_analysis' = Some(CustomerTable(data[1]))
          /\ error' = IF failed = "" THEN "" ELSE "OSError"
          /\ files' =
               IF failed = "regional_performance" THEN files
               ELSE IF failed = "customer_analysis"
                    THEN [files EXCEPT !["regional_performance_insights.csv"] =
                                          regional_performance']
                    ELSE [files EXCEPT !["regional_performance_insights.csv"] =
                                          regional_performance',
                                       !["customer_analysis_insights.csv"] =
                                          customer_analysis']

(* ---------------------------------------------------------------------- *)
(* The dashboard object used directly: after construction any method may   *)
(* be called, in any order, any number of times.                           *)
(* ---------------------------------------------------------------------- *)
Init ==
  /\ sales \in SeqsUpTo(SaleRows, MaxSales)
  /\ data = None
  /\ kpis = None
  /\ regional_performance = None
  /\ customer_analysis = None
  /\ files = [n \in CsvNames |-> None]
  /\ error = ""
  /\ invoked = <<>>
  /\ trace = <<>>
  /\ pc = "api"

CallExtractData == extract_data /\ UNCHANGED <<trace, pc>>

CallCalculateKpis == calculate_kpis /\ UNCHANGED <<trace, pc>>

CallRegionalPerformanceAnalysis ==
  regional_performance_analysis /\ UNCHANGED <<trace, pc>>

CallCustomerAcquisitionAnalysis ==
  customer_acquisition_analysis /\ UNCHANGED <<trace, pc>>

CallExportInsights == export_insights /\ UNCHANGED <<trace, pc>>

Next ==
  \/ CallExtractData
  \/ CallCalculateKpis
  \/ CallRegionalPerformanceAnalysis
  \/ CallCustomerAcquisitionAnalysis
  \/ CallExportInsights

Spec == Init /\ [][Next]_vars

(* ---------------------------------------------------------------------- *)
(* main: one run of the script.  An exception raised by a stage is not     *)
(* caught, so the run ends there.                                          *)
(* ---------------------------------------------------------------------- *)
MainInit ==
  /\ sales \in SeqsUpTo(SaleRows, MaxSales)
  /\ data = None
  /\ kpis = None
  /\ regional_performance = None
  /\ customer_analysis = None
  /\ files = [n \in CsvNames |-> None]
  /\ error = ""
  /\ invoked = <<>>
  /\ trace = <<>>
  /\ pc = "start"

MainStage(at, stage, next) ==
  /\ pc = at
  /\ stage
  /\ trace' = trace \o invoked'
  /\ pc' = IF error' = "" THEN next ELSE "failed"

MainExtractData == MainStage("start", extract_data, "extracted")

MainCalculateKpis == MainStage("extracted", calculate_kpis, "kpis_done")

MainRegionalPerformanceAnalysis ==
  MainStage("kpis_done", regional_performance_analysis, "regional_done")

MainCustomerAcquisitionAnalysis ==
  MainStage("regional_done", customer_acquisition_analysis, "customer_done")

MainExportInsights == MainStage("customer_done", export_insights, "done")

MainNext ==
  \/ MainExtractData
  \/ MainCalculateKpis
  \/ MainRegionalPerformanceAnalysis
  \/ MainCustomerAcquisitionAnalysis
  \/ MainExportInsights

MainSpec == MainInit /\ [][MainNext]_vars

(* ---------------------------------------------------------------------- *)
(* Quantities the properties are stated with, computed from the rows'      *)
(* own quantity and unit_price rather than from the derived column.  A row *)
(* whose quantity or unit_price is NULL has no product and adds nothing.   *)
(* ---------------------------------------------------------------------- *)
RECURSIVE SumTo(_, _)
SumTo(f, n) == IF n = 0 THEN 0 ELSE f[n] + SumTo(f, n - 1)

RowSaleValue(r) ==
  IF NotNull(r.quantity) /\ NotNull(r.unit_price)
  THEN r.quantity[1] * r.unit_price[1] ELSE 0

RowQuantity(r) == IF NotNull(r.quantity) THEN r.quantity[1] ELSE 0

TableSaleValue(tbl) == SumTo([i \in 1..Len(tbl) |-> RowSaleValue(tbl[i])], Len(tbl))

TableQuantity(tbl) == SumTo([i \in 1..Len(tbl) |-> RowQuantity(tbl[i])], Len(tbl))

\* The names that occur in column key, and the rows that carry name k.
KeysPresent(tbl, key) ==
  { tbl[i][key][1] : i \in {j \in 1..Len(tbl) : NotNull(tbl[j][key])} }

RowsWithKey(tbl, key, k) == {i \in 1..Len(tbl) : tbl[i][key] = Some(k)}

KeySaleValue(tbl, key, k) ==
  SumTo([i \in 1..Len(tbl) |->
           IF tbl[i][key] = Some(k) THEN RowSaleValue(tbl[i]) ELSE 0], Len(tbl))

\* Lexicographic order of two of the names used here, letter by letter
\* (they differ in their first letter).
Initials == [Corporate |-> 3, East |-> 5, Retail |-> 18, West |-> 23]

NameBefore(a, b) == Initials[a] < Initials[b]

(* ---------------------------------------------------------------------- *)
(* C1                                                                      *)
(* ---------------------------------------------------------------------- *)
\* C1: whenever calculate_kpis returns a KPI set, its total_revenue is the
\* sum over the flat table's rows of quantity * unit_price (not of the stored
\* total_revenue column) and its total_sales_volume is the sum of quantity.
C1_KpiTotals ==
  (NotNull(kpis) /\ NotNull(data)) =>
    /\ kpis[1].total_revenue = TableSaleValue(data[1])
    /\ kpis[1].total_sales_volume = TableQuantity(data[1])

\* Two rows, 1 x 10 and 2 x 5, whose stored total_revenue (7 each) disagrees.
C1_Witness ==
  /\ NotNull(kpis)
  /\ NotNull(data)
  /\ Len(data[1]) = 2
  /\ kpis[1].total_revenue = 20
  /\ kpis[1].total_sales_volume = 3
  /\ SeriesSum(Column(data[1], "total_revenue")) = 14

(* ---------------------------------------------------------------------- *)
(* C2                                                                      *)
(* ---------------------------------------------------------------------- *)
\* C2: whenever calculate_kpis returns a KPI set, top_performing_region is a
\* region name present in the flat table whose summed sale value is at least
\* that of every region name present, and no region name with the same sum
\* comes before it in lexicographic order; this fixes the result from the
\* rows alone, whatever their order.
C2_TopRegion ==
  (NotNull(kpis) /\ NotNull(data)) =>
    LET tbl == data[1]
        top == kpis[1].top_performing_region
        present == KeysPresent(tbl, "region_name")
    IN  /\ top \in present
        /\ \A r \in present :
             /\ KeySaleValue(tbl, "region_name", r) <= KeySaleValue(tbl, "region_name", top)
             /\ KeySaleValue(tbl, "region_name", r) = KeySaleValue(tbl, "region_name", top)
                  => ~NameBefore(r, top)

\* West's row comes first, East and West tie at 10, and East is reported.
C2_Witness ==
  /\ NotNull(kpis)
  /\ NotNull(data)
  /\ Len(data[1]) = 2
  /\ data[1][1].region_name = Some("West")
  /\ data[1][2].region_name = Some("East")
  /\ KeySaleValue(data[1], "region_name", "West") = 10
  /\ KeySaleValue(data[1], "region_name", "East") = 10
  /\ kpis[1].top_performing_region = "East"

(* ---------------------------------------------------------------------- *)
(* C3                                                                      *)
(* ---------------------------------------------------------------------- *)
\* C3: partition property.  The 'Total Revenue' of the regional rows adds up
\* to the sale value of all flat-table rows and their 'Total Units' to the
\* quantity of all flat-table rows; the 'Total Revenue' of the segment rows
\* adds up to the sale value of all flat-table rows; rows with a NULL
\* region name or customer segment included.
C3_Partition ==
  /\ (NotNull(regional_performance) /\ NotNull(data)) =>
       LET out == regional_performance[1]
       IN  /\ SumTo([i \in 1..Len(out) |-> out[i].Total_Revenue], Len(out))
                = TableSaleValue(data[1])
           /\ SumTo([i \in 1..Len(out) |-> out[i].Total_Units], Len(out))
                = TableQuantity(data[1])
  /\ (NotNull(customer_analysis) /\ NotNull(data)) =>
       LET out == customer_analysis[1]
       IN  SumTo([i \in 1..Len(out) |-> out[i].Total_Revenue], Len(out))
             = TableSaleValue(data[1])

(* ---------------------------------------------------------------------- *)
(* C4                                                                      *)
(* ---------------------------------------------------------------------- *)
GroupedOncePerKey(out, label, tbl, key) ==
  /\ \A i, j \in 1..Len(out) : out[i][label] = out[j][label] => i = j
  /\ { out[i][label] : i \in 1..Len(out) } = KeysPresent(tbl, key)
  /\ Len(out) = Cardinality(KeysPresent(tbl, key))
  /\ tbl = <<>> => out = <<>>

\* C4: the regional table has exactly one row per distinct region_name value
\* of the flat table and the segment table exactly one row per distinct
\* customer_segment value (no key twice, no key that is not in the input,
\* as many rows as distinct values); from an empty flat table both have no
\* rows.
C4_OneRowPerKey ==
  /\ (NotNull(regional_performance) /\ NotNull(data)) =>
       GroupedOncePerKey(regional_performance[1], "Region", data[1], "region_name")
  /\ (NotNull(customer_analysis) /\ NotNull(data)) =>
       GroupedOncePerKey(customer_analysis[1], "Customer_Segment", data[1],
                         "customer_segment")

\* Two East sales, both Retail: one regional row and one segment row.
C4_Witness ==
  /\ NotNull(regional_performance)
  /\ NotNull(customer_analysis)
  /\ NotNull(data)
  /\ Len(data[1]) = 2
  /\ data[1][1].region_name = Some("East")
  /\ data[1][2].region_name = Some("East")
  /\ data[1][1].customer_segment = Some("Retail")
  /\ data[1][2].customer_segment = Some("Retail")
  /\ Len(regional_performance[1]) = 1
  /\ Len(customer_analysis[1]) = 1

(* ---------------------------------------------------------------------- *)
(* C5                                                                      *)
(* ---------------------------------------------------------------------- *)
\* C5: calculate_kpis on a flat table with no rows ends with an exception
\* and returns no KPI set; the sums of total_sale_value and of quantity over
\* that table are 0.
C5_EmptyTable ==
  (invoked = <<"calculate_kpis">> /\ NotNull(data) /\ data[1] = <<>>) =>
    /\ error = "ValueError"
    /\ IsNull(kpis)
    /\ SeriesSum(Column(data[1], "total_sale_value")) = 0
    /\ SeriesSum(Column(data[1], "quantity")) = 0

\* The sales table has rows, none of them survives the join.
C5_Witness ==
  /\ invoked = <<"calculate_kpis">>
  /\ NotNull(data)
  /\ data[1] = <<>>
  /\ Len(sales) = 2
  /\ error = "ValueError"

(* ---------------------------------------------------------------------- *)
(* C6                                                                      *)
(* ---------------------------------------------------------------------- *)
\* C6: the flat table has exactly one row for each sale whose product_id,
\* region_id, customer_id and sales_rep_id each equal the key of a row of
\* products, regions, customers and employees, no row for any other sale,
\* and each row carries the attributes of those four rows.
C6_InnerJoin ==
  NotNull(data) =>
    LET tbl == data[1]
        matched == { i \in 1..Len(sales) :
                       /\ \E p \in DOMAIN products : p = sales[i].product_id
                       /\ \E r \in DOMAIN regions : r = sales[i].region_id
                       /\ \E c \in DOMAIN customers : c = sales[i].customer_id
                       /\ \E e \in DOMAIN employees : e = sales[i].sales_rep_id }
    IN  /\ \A i \in matched :
             Cardinality({ n \in 1..Len(tbl) : tbl[n].sale_id = Some(i) }) = 1
        /\ \A n \in 1..Len(tbl) : \E i \in matched : tbl[n].sale_id = Some(i)
        /\ \A n \in 1..Len(tbl) :
             LET s == sales[tbl[n].sale_id[1]]
             IN  /\ tbl[n].product_name = products[s.product_id].product_name
                 /\ tbl[n].category = products[s.product_id].category
                 /\ tbl[n].region_name = regions[s.region_id].region_name
                 /\ tbl[n].country = regions[s.region_id].country
                 /\ tbl[n].customer_segment = customers[s.customer_id].customer_segment
                 /\ tbl[n].employee_id = s.sales_rep_id
                 /\ tbl[n].sales_rep_name = employees[s.sales_rep_id].sales_rep_name

\* The first sale has no matching customer, the second is a West sale.
C6_Witness ==
  /\ NotNull(data)
  /\ Len(sales) = 2
  /\ sales[1].customer_id \notin DOMAIN customers
  /\ Len(data[1]) = 1
  /\ data[1][1].sale_id = Some(2)
  /\ data[1][1].country = "CA"

(* ---------------------------------------------------------------------- *)
(* C7                                                                      *)
(* ---------------------------------------------------------------------- *)
\* C7: a successful run of main has run extract_data, calculate_kpis,
\* regional_performance_analysis, customer_acquisition_analysis and
\* export_insights in this order, and no method is ever run a second time.
C7_EachStageOnce ==
  /\ pc = "done" =>
       trace = <<"extract_data", "calculate_kpis", "regional_performance_analysis",
                 "customer_acquisition_analysis", "export_insights">>
  /\ \A i, j \in 1..Len(trace) : trace[i] = trace[j] => i = j

(* ---------------------------------------------------------------------- *)
(* C8                                                                      *)
(* ---------------------------------------------------------------------- *)
\* C8: fail fast, no partial output.  A run of main that ended in an
\* exception holds that exception, ran nothing after the method that raised
\* it, and has written neither CSV file.
C8_NoPartialOutput ==
  pc = "failed" =>
    /\ error # ""
    /\ invoked # <<>>
    /\ Len(trace) >= Len(invoked)
    /\ SubSeq(trace, Len(trace) - Len(invoked) + 1, Len(trace)) = invoked
    /\ \A n \in CsvNames : IsNull(files[n])

(* ---------------------------------------------------------------------- *)
(* C9                                                                      *)
(* ---------------------------------------------------------------------- *)
\* C9: a call of any method other than extract_data leaves self.data as it
\* was, in every order and number of calls.
C9_DataFrame == [][invoked' # <<"extract_data">> => data' = data]_vars

\* Both files have been exported from a two-row table with a NaN sale value,
\* and calculate_kpis has run after that.
C9_Witness ==
  /\ NotNull(data)
  /\ Len(data[1]) = 2
  /\ IsNull(data[1][1].total_sale_value)
  /\ \A n \in CsvNames : NotNull(files[n])
  /\ invoked = <<"calculate_kpis">>
  /\ NotNull(kpis)

(* ---------------------------------------------------------------------- *)
(* C10                                                                     *)
(* ---------------------------------------------------------------------- *)
\* C10: 'Total Transactions' of every regional row is the number of
\* flat-table rows with that region_name, and of every segment row the
\* number of flat-table rows with that customer_segment, rows with a NULL
\* quantity included.
C10_TransactionsAreRowCounts ==
  /\ (NotNull(regional_performance) /\ NotNull(data)) =>
       \A i \in 1..Len(regional_performance[1]) :
         regional_performance[1][i].Total_Transactions =
           Cardinality(RowsWithKey(data[1], "region_name",
                                   regional_performance[1][i].Region))
  /\ (NotNull(customer_analysis) /\ NotNull(data)) =>
       \A i \in 1..Len(customer_analysis[1]) :
         customer_analysis[1][i].Total_Transactions =
           Cardinality(RowsWithKey(data[1], "customer_segment",
                                   customer_analysis[1][i].Customer_Segment))

====
